---- MODULE Spec2Model ----
(***************************************************************************)
(* Model of spotify_dashboard.py: the script is one sequential run over    *)
(* the export files.  The files are the environment (their parsed content  *)
(* is fixed in the initial state); every section of the script is one      *)
(* action, taken in program order; an uncaught exception ends the run.     *)
(*                                                                         *)
(* Encoding of values                                                      *)
(*   - a cell of a pandas table is Null (NaN / None / NaT) or Some(v);     *)
(*   - names (artist, track, show, platform, ...) are coded by integers    *)
(*     in their sort order, shuffle False/True by 0/1;                     *)
(*   - a float is an exact fraction [n, d] in lowest terms (rounding of    *)
(*     IEEE doubles is not modelled);                                      *)
(*   - a raw `ts` string is <<day, hour>>, a parsed timestamp is a number  *)
(*     of hours since the epoch;                                           *)
(*   - a JSON value of a playlist file is a tagged record [type, json].    *)
(* Not modelled: the plotly/streamlit rendering calls and the monthly      *)
(* resampling of line 100 (calendar months).                               *)
(***************************************************************************)
EXTENDS Integers, Sequences, FiniteSets, TLC

----------------------------------------------------------------------------
(* Bounds of the model *)
MaxFiles == 2          \* streaming-history files
MaxRecords == 3        \* records over all streaming-history files
MaxDay == 2            \* last day a record may be stamped with
WideGroups == 11       \* distinct names in the many-groups input
MaxPlaylistFiles == 3  \* playlist files
MaxPlaylists == 2      \* playlist objects in a file
MaxItems == 3          \* elements of an `items` list

(* Constants of the program *)
MsPerMinute == 60000
TopK == 10
HoursPerDay == 24

----------------------------------------------------------------------------
(* Cells *)
Null == <<>>
Some(v) == <<v>>
notna(c) == c # Null

Min(a, b) == IF a <= b THEN a ELSE b

(* Exact fractions standing for floats *)
RECURSIVE GCD(_, _)
GCD(a, b) == IF b = 0 THEN a ELSE GCD(b, a % b)

Frac(n, d) == LET g == GCD(n, d) IN [n |-> n \div g, d |-> d \div g]
FracZero == [n |-> 0, d |-> 1]
FracAdd(a, b) == Frac(a.n * b.d + b.n * a.d, a.d * b.d)
FracLess(a, b) == a.n * b.d < b.n * a.d

(* The elements of a finite set of integers in ascending order *)
RECURSIVE SortedSeq(_)
SortedSeq(S) ==
    IF S = {} THEN <<>>
    ELSE LET m == CHOOSE x \in S : \A y \in S : x <= y
         IN <<m>> \o SortedSeq(S \ {m})

EmptyRec == [x \in {} |-> x]

----------------------------------------------------------------------------
(* State *)
VARIABLES
    streaming_files,   \* parsed content of the Streaming_History*.json files
    playlist_files,    \* parsed content of the Playlist*.json files
    search_file,       \* parsed content of SearchQueries.json
    pc,                \* section of the script to run next
    err,               \* the uncaught exception that ended the run, if any
    streaming_df,      \* the play-event table
    playlist_list,     \* playlist objects collected from the files
    playlist_records,  \* rows of the flattened playlists
    all_tracks,        \* the playlist-track table
    searches,          \* the search-query table
    warnings,          \* st.write notices of the playlist loader, by file
    fi,                \* index of the playlist file / playlist in progress
    summary,           \* the three summary scalars
    reports            \* what each report section produced

vars == <<streaming_files, playlist_files, search_file, pc, err, streaming_df,
          playlist_list, playlist_records, all_tracks, searches, warnings, fi,
          summary, reports>>

inputs == <<streaming_files, playlist_files, search_file>>

----------------------------------------------------------------------------
(* pandas tables: a set of columns and rows that carry every column *)
EmptyFrame == [columns |-> {}, rows |-> <<>>, index |-> "range"]

Fill(rec, cols, nan) == [c \in cols |-> IF c \in DOMAIN rec THEN rec[c] ELSE nan]

(* pd.DataFrame(records): the columns are the keys of all the records, and a
   record that lacks a key gets the missing value `nan` in that column *)
DataFrame(recs, nan) ==
    LET cols == UNION {DOMAIN recs[i] : i \in 1..Len(recs)}
    IN [columns |-> cols,
        rows |-> [i \in 1..Len(recs) |-> Fill(recs[i], cols, nan)],
        index |-> "range"]

empty(df) == Len(df.rows) = 0 \/ df.columns = {}

(* pd.concat(dfs, ignore_index=True): the records of the files, in order *)
RECURSIVE concat_dedup(_)
concat_dedup(files) ==
    IF files = <<>> THEN <<>>
    ELSE LET before == concat_dedup(SubSeq(files, 1, Len(files) - 1))
             seen == {before[i] : i \in 1..Len(before)}
         IN before \o SelectSeq(files[Len(files)].records, LAMBDA r : r \notin seen)

RECURSIVE concat(_)
concat(files) ==
    IF files = <<>> THEN <<>>
    ELSE files[1].records \o concat(Tail(files))

(* pd.to_datetime of one cell *)
to_datetime(c) == IF c = Null THEN Null ELSE Some(c[1][1] * HoursPerDay + c[1][2])

(* ms_played / 60000 of one cell *)
minutes_played(c) == IF c = Null THEN Null ELSE Some(Frac(c[1], MsPerMinute))

(* Series.sum(): NaN is skipped, the empty sum is 0 *)
RECURSIVE SumCells(_)
SumCells(cells) ==
    IF cells = <<>> THEN FracZero
    ELSE IF cells[1] = Null THEN SumCells(Tail(cells))
         ELSE FracAdd(cells[1][1], SumCells(Tail(cells)))

Column(df, col) == [i \in 1..Len(df.rows) |-> df.rows[i][col]]

SelectRows(df, I) == SelectSeq([i \in 1..Len(df.rows) |-> <<i, df.rows[i]>>], LAMBDA p : p[1] \in I)

ColumnOf(df, col, I) == LET sel == SelectRows(df, I) IN [j \in 1..Len(sel) |-> sel[j][2][col]]

(* groupby(col): the distinct keys; pandas drops the null key (dropna=True) *)
GroupKeysKeepNull(df, col) == {df.rows[i][col] : i \in 1..Len(df.rows)}

GroupKeys(df, col) == {df.rows[i][col] : i \in {j \in 1..Len(df.rows) : notna(df.rows[j][col])}}

RowsOfKey(df, col, key) == {i \in 1..Len(df.rows) : df.rows[i][col] = key}

(* groupby(col)["minutes_played"].sum() as a set of (key, value) entries *)
GroupSums(df, col) ==
    {[key |-> k, value |-> SumCells(ColumnOf(df, "minutes_played", RowsOfKey(df, col, k)))] :
        k \in GroupKeys(df, col)}

(* A Series in the order groupby leaves it: ascending by key *)
ByKey(entries) ==
    LET keys == SortedSeq({e.key[1] : e \in entries})
    IN [i \in 1..Len(keys) |-> CHOOSE e \in entries : e.key = Some(keys[i])]

(* sort_values(ascending=False): every order that is non-increasing in the
   value; the default sort kind is not stable, so ties may come in any order *)
RECURSIVE sort_values_desc(_)
sort_values_desc(entries) ==
    IF entries = {} THEN {<<>>}
    ELSE LET top == {e \in entries : \A f \in entries : ~FracLess(e.value, f.value)}
         IN UNION {{<<m>> \o r : r \in sort_values_desc(entries \ {m})} : m \in top}

(* the same for a Series of counts *)
RECURSIVE sort_counts_desc(_)
sort_counts_desc(entries) ==
    IF entries = {} THEN {<<>>}
    ELSE LET top == {e \in entries : \A f \in entries : e.value >= f.value}
         IN UNION {{<<m>> \o r : r \in sort_counts_desc(entries \ {m})} : m \in top}

head(s, k) == SubSeq(s, 1, Min(k, Len(s)))

(* Series.resample("D").sum() over the `ts` index: one entry per day from the
   day of the earliest to the day of the latest timestamp; rows stamped NaT
   fall in no bucket; a day without rows sums to 0 *)
DayOf(t) == t \div HoursPerDay

Days(df) == {DayOf(df.rows[i]["ts"][1]) : i \in {j \in 1..Len(df.rows) : notna(df.rows[j]["ts"])}}

RowsOfDay(df, d) ==
    {i \in 1..Len(df.rows) : notna(df.rows[i]["ts"]) /\ DayOf(df.rows[i]["ts"][1]) = d}

DaySum(df, d) == SumCells(ColumnOf(df, "minutes_played", RowsOfDay(df, d)))

resample_sparse(df) ==
    LET days == SortedSeq(Days(df))
    IN [j \in 1..Len(days) |-> [key |-> Some(days[j]), value |-> DaySum(df, days[j])]]

resample_D_sum(df) ==
    LET days == Days(df)
    IN IF days = {} THEN <<>>
       ELSE LET lo == CHOOSE d \in days : \A e \in days : d <= e
                hi == CHOOSE d \in days : \A e \in days : d >= e
            IN [j \in 1..(hi - lo + 1) |->
                   [key |-> Some(lo + j - 1), value |-> DaySum(df, lo + j - 1)]]

----------------------------------------------------------------------------
(* What a report section produced: nothing, a chart of a table, or a notice *)
NoReport == [kind |-> "none", rows |-> <<>>, text |-> ""]
Chart(rows) == [kind |-> "chart", rows |-> rows, text |-> ""]
Notice(text) == [kind |-> "text", rows |-> <<>>, text |-> text]

ReportNames ==
    {"top_artists", "top_tracks", "daily_minutes", "top_podcasts", "top_audiobooks",
     "playlist_sizes", "top_playlist_artists", "top_searches", "platform_minutes",
     "shuffle_minutes"}

(* the sections in program order; Ran(s): the run has gone past section s *)
Sections ==
    <<"streaming", "playlists", "flatten", "all_tracks", "searches", "summary",
      "top_artists", "top_tracks", "trends", "podcasts", "audiobooks",
      "playlist_insights", "search_queries", "platform", "shuffle", "done">>

Place(s) == CHOOSE i \in 1..Len(Sections) : Sections[i] = s

NoSummary == [done |-> FALSE, minutes |-> FracZero, tracks |-> 0, playlists |-> 0]

NoError == [exc |-> "", what |-> ""]
Raised(exc, what) == [exc |-> exc, what |-> what]

Abort(exc, what) == pc' = "aborted" /\ err' = Raised(exc, what)

Goto(next) == pc' = next /\ err' = err

Put(name, r) == reports' = [reports EXCEPT ![name] = r]

(* groupby(col)["minutes_played"].sum().sort_values(ascending=False).head(10):
   the results the statement can give *)
top_unsorted(df, col) == {head(ByKey(GroupSums(df, col)), TopK)}

top_by_minutes(df, col) == {head(s, TopK) : s \in sort_values_desc(GroupSums(df, col))}

(* groupby(col)["minutes_played"].sum() *)
sum_top10(df, col) == CHOOSE r \in top_by_minutes(df, col) : TRUE

sum_by_group(df, col) == ByKey(GroupSums(df, col))

(* the podcast / audiobook sections: the chart's table, or the notice *)
any_notna(df, col) == \E i \in 1..Len(df.rows) : notna(df.rows[i][col])

show_report_by_column(df, col, text) ==
    IF col \in df.columns
    THEN {Chart(r) : r \in top_by_minutes(df, col)}
    ELSE {Notice(text)}

show_report(df, col, text) ==
    IF col \in df.columns /\ any_notna(df, col)
    THEN {Chart(r) : r \in top_by_minutes(df, col)}
    ELSE {Notice(text)}

----------------------------------------------------------------------------
(* JSON values of the playlist files: the tag and the payload *)
JNull == [type |-> "null", json |-> <<>>]
JStr(x) == [type |-> "str", json |-> x]
JList(items) == [type |-> "list", json |-> items]
JDict(f) == [type |-> "dict", json |-> f]

isinstance(x, type) == x.type = type

get(d, key, default) == IF key \in DOMAIN d.json THEN d.json[key] ELSE default

(* Lines 31-39 for one file: the playlists it adds and whether the except
   branch wrote its notice.  extend() of a value that is not iterable raises
   inside the try *)
load_warn_other_shape(file) ==
    IF ~file.readable THEN [playlists |-> <<>>, warned |-> TRUE]
    ELSE IF isinstance(file.data, "dict") /\ "playlists" \in DOMAIN file.data.json
         THEN IF isinstance(file.data.json["playlists"], "list")
              THEN [playlists |-> file.data.json["playlists"].json, warned |-> FALSE]
              ELSE [playlists |-> <<>>, warned |-> TRUE]
         ELSE IF isinstance(file.data, "list")
              THEN [playlists |-> file.data.json, warned |-> FALSE]
              ELSE [playlists |-> <<>>, warned |-> TRUE]

load_playlist_file(file) ==
    IF ~file.readable THEN [playlists |-> <<>>, warned |-> TRUE]
    ELSE IF isinstance(file.data, "dict") /\ "playlists" \in DOMAIN file.data.json
         THEN IF isinstance(file.data.json["playlists"], "list")
              THEN [playlists |-> file.data.json["playlists"].json, warned |-> FALSE]
              ELSE [playlists |-> <<>>, warned |-> TRUE]
         ELSE IF isinstance(file.data, "list")
              THEN [playlists |-> file.data.json, warned |-> FALSE]
              ELSE [playlists |-> <<>>, warned |-> FALSE]

(* Lines 43-47 *)
playlist_meta(playlist) ==
    [name |-> get(playlist, "name", JNull),
     lastModifiedDate |-> get(playlist, "lastModifiedDate", JNull),
     collaborators |-> get(playlist, "collaborators", JNull)]

(* Lines 48-52 *)
normalize_items(items) ==
    IF isinstance(items, "dict") THEN <<items>>
    ELSE IF ~isinstance(items, "list") THEN <<>>
    ELSE items.json

(* Lines 53-57: the rows appended for the items, and whether `**track_data`
   raised TypeError (track_data is not a mapping), which ends the loop *)
RECURSIVE flatten_items(_, _)
flatten_items(meta, items) ==
    IF items = <<>> THEN [rows |-> <<>>, raised |-> FALSE]
    ELSE IF ~isinstance(items[1], "dict") THEN flatten_items(meta, Tail(items))
    ELSE LET track_data == get(items[1], "track", JDict(EmptyRec))
         IN IF ~isinstance(track_data, "dict")
            THEN [rows |-> <<>>, raised |-> TRUE]
            ELSE LET rest == flatten_items(meta, Tail(items))
                 IN [rows |-> <<track_data.json @@ meta>> \o rest.rows,
                     raised |-> rest.raised]

(* groupby(col).size() and groupby(col)[counted].count() of the playlist
   table: null keys are dropped, count() counts the non-null cells *)
KeysOf(df, col) == {df.rows[i][col] : i \in {j \in 1..Len(df.rows) : df.rows[j][col] # JNull}}

group_size(df, col) ==
    {[key |-> Some(k.json), value |-> Cardinality(RowsOfKey(df, col, k))] : k \in KeysOf(df, col)}

group_count(df, col, counted) ==
    {[key |-> Some(k.json),
      value |-> Cardinality({i \in RowsOfKey(df, col, k) : df.rows[i][counted] # JNull})] :
        k \in KeysOf(df, col)}

nunique(df, col) == Cardinality(KeysOf(df, col))

(* Series.value_counts() of the search table *)
value_counts(df, col) ==
    {[key |-> k, value |-> Cardinality(RowsOfKey(df, col, k))] : k \in GroupKeys(df, col)}

----------------------------------------------------------------------------
(* The sections of the script, in program order *)

(* Lines 20-24.  read_json of a malformed file, concat of no frames and a
   missing `ts` or `ms_played` column raise, and nothing catches them *)
with_ts(df) ==
    [df EXCEPT !.rows = [i \in 1..Len(df.rows) |->
        [df.rows[i] EXCEPT !["ts"] = to_datetime(@)]]]

with_minutes(df) ==
    [df EXCEPT !.columns = @ \cup {"minutes_played"},
               !.rows = [i \in 1..Len(df.rows) |->
                   [c \in df.columns \cup {"minutes_played"} |->
                       IF c = "minutes_played" THEN minutes_played(df.rows[i]["ms_played"])
                       ELSE df.rows[i][c]]]]

LoadStreaming ==
    /\ pc = "streaming"
    /\ IF \E i \in 1..Len(streaming_files) : ~streaming_files[i].readable
       THEN Abort("ValueError", "read_json") /\ UNCHANGED streaming_df
       ELSE IF streaming_files = <<>>
       THEN Abort("ValueError", "No objects to concatenate") /\ UNCHANGED streaming_df
       ELSE LET df == DataFrame(concat(streaming_files), Null)
            IN IF "ts" \notin df.columns
               THEN Abort("KeyError", "ts") /\ streaming_df' = df
               ELSE IF "ms_played" \notin df.columns
               THEN Abort("KeyError", "ms_played") /\ streaming_df' = with_ts(df)
               ELSE Goto("playlists") /\ streaming_df' = with_minutes(with_ts(df))
    /\ UNCHANGED <<inputs, playlist_list, playlist_records, all_tracks, searches,
                   warnings, fi, summary, reports>>

(* Lines 30-39, one file per step *)
LoadPlaylistFile ==
    /\ pc = "playlists"
    /\ IF fi <= Len(playlist_files)
       THEN LET r == load_playlist_file(playlist_files[fi])
            IN /\ playlist_list' = playlist_list \o r.playlists
               /\ warnings' = IF r.warned THEN Append(warnings, fi) ELSE warnings
               /\ fi' = fi + 1
               /\ Goto("playlists")
       ELSE /\ fi' = 1
            /\ Goto("flatten")
            /\ UNCHANGED <<playlist_list, warnings>>
    /\ UNCHANGED <<inputs, streaming_df, playlist_records, all_tracks, searches,
                   summary, reports>>

(* Lines 42-57, one playlist per step; playlist.get raises AttributeError
   when the playlist is not a mapping *)
FlattenPlaylist ==
    /\ pc = "flatten"
    /\ IF fi <= Len(playlist_list)
       THEN LET playlist == playlist_list[fi]
            IN IF ~isinstance(playlist, "dict")
               THEN Abort("AttributeError", "get") /\ UNCHANGED <<playlist_records, fi>>
               ELSE LET r == flatten_items(playlist_meta(playlist),
                                          normalize_items(get(playlist, "items", JList(<<>>))))
                    IN /\ playlist_records' = playlist_records \o r.rows
                       /\ IF r.raised
                          THEN Abort("TypeError", "track_data is not a mapping") /\ fi' = fi
                          ELSE Goto("flatten") /\ fi' = fi + 1
       ELSE /\ Goto("all_tracks")
            /\ UNCHANGED <<playlist_records, fi>>
    /\ UNCHANGED <<inputs, streaming_df, playlist_list, all_tracks, searches,
                   warnings, summary, reports>>

(* Line 59 *)
AllTracks ==
    /\ pc = "all_tracks"
    /\ all_tracks' = DataFrame(playlist_records, JNull)
    /\ Goto("searches")
    /\ UNCHANGED <<inputs, streaming_df, playlist_list, playlist_records, searches,
                   warnings, fi, summary, reports>>

(* Lines 62-65 *)
LoadSearches ==
    /\ pc = "searches"
    /\ searches' = IF search_file.readable THEN DataFrame(search_file.records, Null)
                   ELSE EmptyFrame
    /\ Goto("summary")
    /\ UNCHANGED <<inputs, streaming_df, playlist_list, playlist_records, all_tracks,
                   warnings, fi, summary, reports>>

(* Lines 70-73 *)
Summary ==
    /\ pc = "summary"
    /\ summary' = [done |-> TRUE,
                   minutes |-> SumCells(Column(streaming_df, "minutes_played")),
                   tracks |-> Len(streaming_df.rows),
                   playlists |-> IF ~empty(all_tracks) /\ "name" \in all_tracks.columns
                                 THEN nunique(all_tracks, "name") ELSE 0]
    /\ Goto("top_artists")
    /\ UNCHANGED <<inputs, streaming_df, playlist_list, playlist_records, all_tracks,
                   searches, warnings, fi, reports>>

(* Lines 78-82 and 84-88 *)
TopSection(here, col, name, next) ==
    /\ pc = here
    /\ IF col \in streaming_df.columns
       THEN \E r \in top_by_minutes(streaming_df, col) : Put(name, Chart(r))
       ELSE UNCHANGED reports
    /\ Goto(next)
    /\ UNCHANGED <<inputs, streaming_df, playlist_list, playlist_records, all_tracks,
                   searches, warnings, fi, summary>>

TopArtists ==
    TopSection("top_artists", "master_metadata_album_artist_name", "top_artists", "top_tracks")

TopTracks ==
    TopSection("top_tracks", "master_metadata_track_name", "top_tracks", "trends")

(* Lines 93-98.  When every timestamp is NaT the resampler has no range to
   span: depending on the pandas build it raises or gives an empty series *)
Trends ==
    /\ pc = "trends"
    /\ IF ~empty(streaming_df)
       THEN LET df == [streaming_df EXCEPT !.columns = @ \ {"ts"}, !.index = "ts"]
            IN /\ streaming_df' = df
               /\ IF Days(df) = {}
                  THEN \E raises \in BOOLEAN :
                          IF raises
                          THEN Abort("ValueError", "resample") /\ UNCHANGED reports
                          ELSE Goto("podcasts") /\ Put("daily_minutes", Chart(<<>>))
                  ELSE Goto("podcasts") /\ Put("daily_minutes", Chart(resample_D_sum(df)))
       ELSE Goto("podcasts") /\ UNCHANGED <<streaming_df, reports>>
    /\ UNCHANGED <<inputs, playlist_list, playlist_records, all_tracks, searches,
                   warnings, fi, summary>>

(* Lines 107-113 and 118-124 *)
ShowSection(here, col, name, text, next) ==
    /\ pc = here
    /\ \E r \in show_report(streaming_df, col, text) : Put(name, r)
    /\ Goto(next)
    /\ UNCHANGED <<inputs, streaming_df, playlist_list, playlist_records, all_tracks,
                   searches, warnings, fi, summary>>

Podcasts ==
    ShowSection("podcasts", "episode_show_name", "top_podcasts", "No podcasts found.",
                "audiobooks")

Audiobooks ==
    ShowSection("audiobooks", "audiobook_title", "top_audiobooks", "No audiobooks found.",
                "playlist_insights")

(* Lines 129-140.  Line 136 reads the trackName column without testing for it *)
PlaylistInsights ==
    /\ pc = "playlist_insights"
    /\ IF ~empty(all_tracks) /\ "name" \in all_tracks.columns
       THEN \E sizes \in sort_counts_desc(group_size(all_tracks, "name")) :
               IF "artistName" \in all_tracks.columns
               THEN IF "trackName" \notin all_tracks.columns
                    THEN /\ Abort("KeyError", "trackName")
                         /\ Put("playlist_sizes", Chart(head(sizes, TopK)))
                    ELSE \E artists \in
                             sort_counts_desc(group_count(all_tracks, "artistName", "trackName")) :
                             /\ Goto("search_queries")
                             /\ reports' = [reports EXCEPT
                                    !["playlist_sizes"] = Chart(head(sizes, TopK)),
                                    !["top_playlist_artists"] = Chart(head(artists, TopK))]
               ELSE /\ Goto("search_queries")
                    /\ Put("playlist_sizes", Chart(head(sizes, TopK)))
       ELSE /\ Goto("search_queries")
            /\ Put("playlist_sizes", Notice("No playlist data available."))
    /\ UNCHANGED <<inputs, streaming_df, playlist_list, playlist_records, all_tracks,
                   searches, warnings, fi, summary>>

(* Lines 145-151 *)
SearchQueries ==
    /\ pc = "search_queries"
    /\ IF ~empty(searches) /\ "searchQuery" \in searches.columns
       THEN \E r \in sort_counts_desc(value_counts(searches, "searchQuery")) :
               Put("top_searches", Chart(head(r, TopK)))
       ELSE Put("top_searches", Notice("No search queries found."))
    /\ Goto("platform")
    /\ UNCHANGED <<inputs, streaming_df, playlist_list, playlist_records, all_tracks,
                   searches, warnings, fi, summary>>

(* Lines 157-160 and 162-165 *)
BreakdownSection(here, col, name, next) ==
    /\ pc = here
    /\ IF col \in streaming_df.columns
       THEN Put(name, Chart(sum_by_group(streaming_df, col)))
       ELSE UNCHANGED reports
    /\ Goto(next)
    /\ UNCHANGED <<inputs, streaming_df, playlist_list, playlist_records, all_tracks,
                   searches, warnings, fi, summary>>

Platform == BreakdownSection("platform", "platform", "platform_minutes", "shuffle")

Shuffle == BreakdownSection("shuffle", "shuffle", "shuffle_minutes", "done")

Next ==
    \/ LoadStreaming
    \/ LoadPlaylistFile
    \/ FlattenPlaylist
    \/ AllTracks
    \/ LoadSearches
    \/ Summary
    \/ TopArtists
    \/ TopTracks
    \/ Trends
    \/ Podcasts
    \/ Audiobooks
    \/ PlaylistInsights
    \/ SearchQueries
    \/ Platform
    \/ Shuffle

----------------------------------------------------------------------------
(* The export files the run may find *)
SeqsUpTo(S, n) == UNION {[1..k -> S] : k \in 0..n}

(* the ways to cut a sequence into f consecutive pieces *)
RECURSIVE Splits(_, _)
Splits(s, f) ==
    IF f = 1 THEN {<<s>>}
    ELSE UNION {{<<SubSeq(s, 1, c)>> \o r : r \in Splits(SubSeq(s, c + 1, Len(s)), f - 1)} :
                  c \in 0..Len(s)}

StreamFile(recs) == [readable |-> TRUE, records |-> recs]
BadStreamFile == [readable |-> FALSE, records |-> <<>>]

(* up to `records` records of S spread over 1..`files` files, none of them
   empty (EdgeInputs has the empty files) *)
FilesOf(S, files, records) ==
    UNION {{[i \in 1..f |-> StreamFile(sp[i])] :
               sp \in {x \in Splits(s, f) : \A i \in 1..f : x[i] # <<>>}} :
             f \in 1..files, s \in SeqsUpTo(S, records)}

Artist == "master_metadata_album_artist_name"
Track == "master_metadata_track_name"

AtEpoch == Some(<<0, 0>>)
MsValues == {90000, 180000}
NameCells == {Null, Some(1), Some(2)}

PlainRecord(ts, ms) == [ts |-> ts, ms_played |-> Some(ms)]

MusicRecords ==
    {PlainRecord(AtEpoch, ms) @@ (Artist :> a) @@ (Track :> a) : ms \in MsValues, a \in NameCells}

NoMusicRecords == {PlainRecord(AtEpoch, ms) : ms \in MsValues}

(* `groups` records, each with a name of its own and its own play time *)
WideFile(groups, rising) ==
    StreamFile([i \in 1..groups |->
        PlainRecord(AtEpoch, 1000 * (IF rising THEN i ELSE groups + 1 - i))
            @@ (Artist :> Some(i)) @@ (Track :> Some(i)) @@ ("platform" :> Some(i))])

WideInputs(groups) == {<<WideFile(groups, rising)>> : rising \in BOOLEAN}

(* no file, a malformed file, files without records, records without the
   `ts` or the `ms_played` key *)
EdgeInputs ==
    {<<>>,
     <<BadStreamFile>>,
     <<StreamFile(<<PlainRecord(AtEpoch, 1000)>>), BadStreamFile>>,
     <<StreamFile(<<>>)>>,
     <<StreamFile(<<>>), StreamFile(<<PlainRecord(AtEpoch, 1000) @@ (Artist :> Some(1))>>)>>,
     <<StreamFile(<<[ts |-> AtEpoch]>>)>>,
     <<StreamFile(<<[ms_played |-> Some(1000)]>>)>>}

MusicInputs(files, records, groups) ==
    FilesOf(MusicRecords, files, records) \cup FilesOf(NoMusicRecords, files, records)
        \cup WideInputs(groups) \cup EdgeInputs

(* timestamps: null, or an hour of a day *)
HourValues == {0, 23}
TsCells(days) == {Null} \cup {Some(<<d, h>>) : d \in 0..days, h \in HourValues}

TrendInputs(days, records) ==
    {<<StreamFile([i \in 1..Len(t) |-> PlainRecord(t[i], 30000 * i) @@ (Artist :> Some(1))])>> :
        t \in SeqsUpTo(TsCells(days), records)}

(* the optional columns: each pair of columns is in the export or not *)
ShowCells == {Null, Some(1)}
PlatformCells == {Null, Some(1), Some(2)}
ShuffleOf(p) == IF p = Null THEN Null ELSE Some(p[1] - 1)

OptionalRecord(i, show, platform, shows, platforms) ==
    PlainRecord(AtEpoch, 30000 * i)
        @@ (IF shows THEN ("episode_show_name" :> show) @@ ("audiobook_title" :> show)
            ELSE EmptyRec)
        @@ (IF platforms THEN ("platform" :> platform) @@ ("shuffle" :> ShuffleOf(platform))
            ELSE EmptyRec)

OptionalInputs(records, groups) ==
    {<<StreamFile([i \in 1..Len(c) |->
            OptionalRecord(i, c[i][1], c[i][2], shows, platforms)])>> :
        c \in SeqsUpTo(ShowCells \X PlatformCells, records) \ {<<>>},
        shows \in BOOLEAN, platforms \in BOOLEAN}
    \cup WideInputs(groups)

DefaultStreaming ==
    <<StreamFile(<<PlainRecord(AtEpoch, 180000) @@ (Artist :> Some(1)) @@ (Track :> Some(1))
                     @@ ("platform" :> Some(1)) @@ ("shuffle" :> Some(0))>>)>>

SearchFile(queries) ==
    [readable |-> TRUE, records |-> [i \in 1..Len(queries) |-> [searchQuery |-> queries[i]]]]
BadSearchFile == [readable |-> FALSE, records |-> <<>>]
DefaultSearch == SearchFile(<<Some(2), Some(1), Some(2)>>)

SearchInputs(records) ==
    {BadSearchFile, [readable |-> TRUE, records |-> <<[other |-> Some(1)]>>]}
    \cup {SearchFile(q) : q \in SeqsUpTo(NameCells, records)}

(* playlist files *)
PlaylistFile(data) == [readable |-> TRUE, data |-> data]
UnreadableFile == [readable |-> FALSE, data |-> JNull]

GoodTrack == JDict([trackName |-> JStr(1), artistName |-> JStr(1)])
BareTrack == JDict([artistName |-> JStr(2), name |-> JStr(3)])

Items ==
    {JStr(9),
     JDict(EmptyRec),
     JDict([track |-> JNull]),
     JDict([track |-> GoodTrack, addedDate |-> JStr(1)]),
     JDict([track |-> BareTrack])}

Playlist(named, i, items) ==
    JDict((IF named THEN [name |-> JStr(i), lastModifiedDate |-> JStr(1), collaborators |-> JNull]
           ELSE EmptyRec) @@ items)

OddItems ==
    {EmptyRec, [items |-> JStr(9)], [items |-> JNull]}
    \cup {[items |-> it] : it \in {x \in Items : isinstance(x, "dict")}}

(* up to `items` list items spread over 1..`playlists` playlists, possibly
   followed by a playlist whose `items` is not a list *)
PlaylistSeqs(playlists, items) ==
    UNION {{[i \in 1..f |-> Playlist(named, i, [items |-> JList(sp[i])])] : sp \in Splits(s, f)} :
             f \in 1..playlists, s \in SeqsUpTo(Items, items), named \in BOOLEAN}

FlattenInputs(playlists, items) ==
    {<<PlaylistFile(JDict([playlists |-> JList(ps \o tail)]))>> :
        ps \in PlaylistSeqs(playlists, items),
        tail \in {<<>>} \cup {<<Playlist(TRUE, playlists + 1, odd)>> : odd \in OddItems}}
    \cup {<<PlaylistFile(JList(<<JStr(9)>>))>>}

OnePlaylist(i) == Playlist(TRUE, i, [items |-> JList(<<JDict([track |-> GoodTrack])>>)])

FileShapes ==
    {UnreadableFile,
     PlaylistFile(JStr(9)),
     PlaylistFile(JNull),
     PlaylistFile(JDict([other |-> JList(<<OnePlaylist(1)>>)])),
     PlaylistFile(JDict([playlists |-> JNull])),
     PlaylistFile(JDict([playlists |-> JList(<<OnePlaylist(1)>>)])),
     PlaylistFile(JList(<<OnePlaylist(2), Playlist(FALSE, 0, EmptyRec)>>)),
     PlaylistFile(JList(<<>>))}

LoadInputs(files) == SeqsUpTo(FileShapes, files)

----------------------------------------------------------------------------
(* The state before line 20 runs *)
Start ==
    /\ pc = "streaming"
    /\ err = NoError
    /\ streaming_df = EmptyFrame
    /\ playlist_list = <<>>
    /\ playlist_records = <<>>
    /\ all_tracks = EmptyFrame
    /\ searches = EmptyFrame
    /\ warnings = <<>>
    /\ fi = 1
    /\ summary = NoSummary
    /\ reports = [name \in ReportNames |-> NoReport]

InitOf(S, P, Q) ==
    /\ streaming_files \in S
    /\ playlist_files \in P
    /\ search_file \in Q
    /\ Start

InitMusic == InitOf(MusicInputs(MaxFiles, MaxRecords, WideGroups), {<<>>}, {DefaultSearch})
InitTrends == InitOf(TrendInputs(MaxDay, MaxRecords), {<<>>}, {DefaultSearch})
InitOptional == InitOf(OptionalInputs(MaxRecords, WideGroups), {<<>>}, {DefaultSearch})
InitLoad == InitOf({DefaultStreaming}, LoadInputs(MaxPlaylistFiles), {DefaultSearch})
InitFlatten == InitOf({DefaultStreaming}, FlattenInputs(MaxPlaylists, MaxItems), {DefaultSearch})
InitSearch == InitOf({DefaultStreaming}, {<<>>}, SearchInputs(MaxRecords))

Init ==
    \/ InitMusic
    \/ InitTrends
    \/ InitOptional
    \/ InitLoad
    \/ InitFlatten
    \/ InitSearch

Spec == Init /\ [][Next]_vars
SpecMusic == InitMusic /\ [][Next]_vars
SpecTrends == InitTrends /\ [][Next]_vars
SpecOptional == InitOptional /\ [][Next]_vars
SpecLoad == InitLoad /\ [][Next]_vars
SpecFlatten == InitFlatten /\ [][Next]_vars

----------------------------------------------------------------------------
(* The raw records of the streaming-history files, read off the files
   themselves: a record is named by its file and its place in the file *)
Raw ==
    UNION {{<<f, i>> : i \in 1..Len(streaming_files[f].records)} :
             f \in 1..Len(streaming_files)}

RawCell(p, col) ==
    LET rec == streaming_files[p[1]].records[p[2]]
    IN IF col \in DOMAIN rec THEN rec[col] ELSE Null

RawHas(col) == \E p \in Raw : col \in DOMAIN streaming_files[p[1]].records[p[2]]

RECURSIVE RawMs(_)
RawMs(P) ==
    IF P = {} THEN 0
    ELSE LET p == CHOOSE q \in P : TRUE
         IN (IF RawCell(p, "ms_played") = Null THEN 0 ELSE RawCell(p, "ms_played")[1])
            + RawMs(P \ {p})

Ran(section) == pc # "aborted" /\ Place(pc) > Place(section)

RawKeys(col) == {RawCell(p, col) : p \in Raw} \ {Null}
RawOf(col, key) == {p \in Raw : RawCell(p, col) = key}

(* the float v is ms / 60000 *)
IsMinutesOf(v, ms) == v.n * MsPerMinute = v.d * ms

Shown(name) == reports[name].kind = "chart"
Rows(name) == reports[name].rows
KeysShown(name) == {Rows(name)[i].key : i \in 1..Len(Rows(name))}

NonIncreasing(rows) == \A i \in 1..Len(rows) - 1 : ~FracLess(rows[i].value, rows[i + 1].value)

RECURSIVE SumValues(_)
SumValues(rows) == IF rows = <<>> THEN FracZero ELSE FracAdd(rows[1].value, SumValues(Tail(rows)))

TopReports == {<<"top_artists", Artist>>, <<"top_tracks", Track>>}

----------------------------------------------------------------------------
(* C5: the records of all the streaming-history files are concatenated and
   none is dropped as a duplicate: the total track-plays count is the sum of
   the record counts of the files, and every artist of the top-artists table
   carries the sum of ms_played over all of that artist's records in all the
   files, divided by 60000; up to ten artists, every artist is in the table *)
C5_ConcatenatedNoDedup ==
    /\ summary.done => summary.tracks = Cardinality(Raw)
    /\ Shown("top_artists") =>
          /\ \A i \in 1..Len(Rows("top_artists")) :
                IsMinutesOf(Rows("top_artists")[i].value, RawMs(RawOf(Artist, Rows("top_artists")[i].key)))
          /\ KeysShown("top_artists") \subseteq RawKeys(Artist)
          /\ Cardinality(RawKeys(Artist)) <= TopK => KeysShown("top_artists") = RawKeys(Artist)

(* two files, one record of 180000 ms each, identical: 6.0 minutes, count 2 *)
C5_Witness ==
    /\ pc = "done"
    /\ Len(streaming_files) = 2
    /\ Len(streaming_files[1].records) = 1
    /\ streaming_files[2].records = streaming_files[1].records
    /\ streaming_files[1].records[1]["ms_played"] = Some(180000)
    /\ summary.tracks = 2
    /\ Rows("top_artists") = <<[key |-> Some(1), value |-> [n |-> 6, d |-> 1]]>>

(* C2 as amended: the rows whose artist (track) name is null form no group:
   no entry of the top-artists (top-tracks) table has the null key, every
   entry sums the rows of its own key only, and, up to ten names, the entries
   sum to the minutes of the rows that have a name *)
C2_NullKeysDropped ==
    \A t \in TopReports :
        Shown(t[1]) =>
            /\ Null \notin KeysShown(t[1])
            /\ \A i \in 1..Len(Rows(t[1])) :
                  IsMinutesOf(Rows(t[1])[i].value, RawMs(RawOf(t[2], Rows(t[1])[i].key)))
            /\ Cardinality(RawKeys(t[2])) <= TopK =>
                  IsMinutesOf(SumValues(Rows(t[1])), RawMs({p \in Raw : RawCell(p, t[2]) # Null}))

(* C2 as claimed: the null-named rows are a group of the table *)
C2_NullKeyIsAGroup ==
    \A t \in TopReports :
        (/\ Shown(t[1])
         /\ \E p \in Raw : RawCell(p, t[2]) = Null
         /\ Cardinality(RawKeys(t[2])) < TopK)
        => Null \in KeysShown(t[1])

(* a table of named rows, made while null-named rows with play time exist *)
C2_Witness ==
    /\ Shown("top_artists")
    /\ Len(Rows("top_artists")) >= 1
    /\ RawMs({p \in Raw : RawCell(p, Artist) = Null}) > 0

(* C3 as amended: the top-artists table has at most 10 entries and exactly
   min(10, number of distinct non-null artists) of them, in non-increasing
   order of summed minutes; it is empty if and only if no row has a non-null
   artist; when the artist column is absent no table is made *)
C3_TopArtistsShape ==
    /\ Shown("top_artists") =>
          /\ Len(Rows("top_artists")) <= TopK
          /\ Len(Rows("top_artists")) = Min(TopK, Cardinality(RawKeys(Artist)))
          /\ Cardinality(KeysShown("top_artists")) = Len(Rows("top_artists"))
          /\ NonIncreasing(Rows("top_artists"))
          /\ Len(Rows("top_artists")) = 0 <=> RawKeys(Artist) = {}
    /\ Shown("top_artists") => RawHas(Artist)
    /\ Ran("top_artists") => (Shown("top_artists") <=> RawHas(Artist))

(* C3 as claimed: empty if and only if the table is empty or the column absent *)
C3_EmptyIffNoInput ==
    Ran("top_artists") =>
        ((~Shown("top_artists") \/ Len(Rows("top_artists")) = 0)
            <=> (Raw = {} \/ ~RawHas(Artist)))

(* more than ten artists: the table is cut to ten *)
C3_Witness ==
    /\ Shown("top_artists")
    /\ Cardinality(RawKeys(Artist)) > TopK
    /\ Len(Rows("top_artists")) = TopK

(* the calendar day of a raw `ts` string *)
RawDay(p) == RawCell(p, "ts")[1][1]
Stamped == {p \in Raw : RawCell(p, "ts") # Null}
RawDays == {RawDay(p) : p \in Stamped}
FirstDay == CHOOSE d \in RawDays : \A e \in RawDays : d <= e
LastDay == CHOOSE d \in RawDays : \A e \in RawDays : d >= e

(* C4: the daily series is contiguous and zero-filled: it has exactly one
   entry per calendar day from the day of the earliest to the day of the
   latest timestamp, consecutive entries are one day apart, every entry
   carries the summed minutes of the rows stamped with its day, and a day
   without rows carries 0 *)
C4_DailyContiguousZeroFilled ==
    Shown("daily_minutes") =>
        LET rows == Rows("daily_minutes")
        IN IF RawDays = {} THEN rows = <<>>
           ELSE /\ Len(rows) = LastDay - FirstDay + 1
                /\ rows[1].key = Some(FirstDay)
                /\ rows[Len(rows)].key = Some(LastDay)
                /\ \A j \in 1..Len(rows) - 1 : rows[j + 1].key[1] = rows[j].key[1] + 1
                /\ \A j \in 1..Len(rows) :
                      LET on == {p \in Stamped : RawDay(p) = rows[j].key[1]}
                      IN /\ IsMinutesOf(rows[j].value, RawMs(on))
                         /\ on = {} => rows[j].value = FracZero

(* a day without rows between a day with two rows and a day with one *)
C4_Witness ==
    /\ Shown("daily_minutes")
    /\ Len(Rows("daily_minutes")) = 3
    /\ Rows("daily_minutes")[2].value = FracZero
    /\ Cardinality({p \in Stamped : RawDay(p) = FirstDay}) = 2
    /\ FracLess(FracZero, Rows("daily_minutes")[3].value)

----------------------------------------------------------------------------
ShowColumn == "episode_show_name"
NoPodcasts == Notice("No podcasts found.")

(* C8 as amended: the top-podcasts section does not tell its two no-data
   cases apart: when the episode_show_name column is present but no row has a
   non-null value the section gives the notice "No podcasts found.", the very
   outcome it gives when the column is absent; otherwise it gives the table *)
C8_SameNoticeInBothCases ==
    Ran("podcasts") =>
        IF RawKeys(ShowColumn) = {}
        THEN reports["top_podcasts"] = NoPodcasts
        ELSE Shown("top_podcasts") /\ Len(Rows("top_podcasts")) >= 1

(* C8 as claimed: column present and all null gives an empty result that
   differs from the outcome of the absent column *)
C8_DistinctNoDataCases ==
    (Ran("podcasts") /\ RawHas(ShowColumn) /\ RawKeys(ShowColumn) = {})
        => /\ reports["top_podcasts"] \notin show_report(
                  [streaming_df EXCEPT !.columns = @ \ {ShowColumn}],
                  ShowColumn, "No podcasts found.")
           /\ reports["top_podcasts"].rows = <<>>

(* the column is in the export, every value is null, the notice is given *)
C8_Witness ==
    /\ Ran("podcasts")
    /\ RawHas(ShowColumn)
    /\ RawKeys(ShowColumn) = {}
    /\ reports["top_podcasts"] = NoPodcasts

(* the other no-data case: the column is not in the export *)
C8_WitnessAbsent ==
    /\ Ran("podcasts")
    /\ ~RawHas(ShowColumn)
    /\ reports["top_podcasts"] = NoPodcasts

----------------------------------------------------------------------------
Breakdowns == {<<"platform_minutes", "platform">>, <<"shuffle_minutes", "shuffle">>}

Ascending(rows) == \A i \in 1..Len(rows) - 1 : rows[i].key[1] < rows[i + 1].key[1]

(* C9 as amended: the platform and shuffle-state tables are plain group
   totals, neither ranked nor cut: each has one entry for every distinct
   non-null value of its column, however many there are, in ascending order
   of the value, carrying the summed minutes of that value's rows *)
C9_BreakdownByKeyUncut ==
    \A b \in Breakdowns :
        /\ Shown(b[1]) =>
              /\ KeysShown(b[1]) = RawKeys(b[2])
              /\ Len(Rows(b[1])) = Cardinality(RawKeys(b[2]))
              /\ Ascending(Rows(b[1]))
              /\ \A i \in 1..Len(Rows(b[1])) :
                    IsMinutesOf(Rows(b[1])[i].value, RawMs(RawOf(b[2], Rows(b[1])[i].key)))
        /\ Ran(b[2]) => (Shown(b[1]) <=> RawHas(b[2]))

(* C9 as claimed: at most 10 groups, by summed minutes descending *)
C9_RankedTopTen ==
    \A b \in Breakdowns :
        Shown(b[1]) => Len(Rows(b[1])) <= TopK /\ NonIncreasing(Rows(b[1]))

(* more than ten platforms, all of them in the table, the smallest first *)
C9_Witness ==
    /\ Shown("platform_minutes")
    /\ Len(Rows("platform_minutes")) > TopK
    /\ FracLess(Rows("platform_minutes")[1].value, Rows("platform_minutes")[2].value)

----------------------------------------------------------------------------
(* The playlist files, read off the files themselves *)
HasPlaylistsKey(file) == file.data.type = "dict" /\ "playlists" \in DOMAIN file.data.json

(* the file cannot be read or parsed *)
Unparsable(file) == ~file.readable

(* parsed, but neither a mapping with a `playlists` key nor a sequence *)
OtherShape(file) == file.readable /\ ~HasPlaylistsKey(file) /\ file.data.type # "list"

(* the playlists a well-shaped file holds *)
Holds(file) ==
    IF file.readable /\ file.data.type = "list" THEN file.data.json
    ELSE IF file.readable /\ HasPlaylistsKey(file) /\ file.data.json["playlists"].type = "list"
         THEN file.data.json["playlists"].json
         ELSE <<>>

RECURSIVE HeldBy(_)
HeldBy(files) == IF files = <<>> THEN <<>> ELSE Holds(files[1]) \o HeldBy(Tail(files))

FilesDone == IF pc = "playlists" THEN fi - 1 ELSE IF pc = "streaming" THEN 0 ELSE Len(playlist_files)

Warned(i) == \E j \in 1..Len(warnings) : warnings[j] = i

(* C6 as amended: a playlist file that cannot be read or parsed contributes
   zero playlists and one notice; a file whose parsed top-level value is
   neither a mapping with a `playlists` key nor a sequence contributes zero
   playlists and no notice; neither stops the loading loop: after each file
   the list holds exactly the playlists of the well-shaped files read so
   far, those that follow a bad file included *)
C6_BadFileSkipped ==
    /\ playlist_list = HeldBy(SubSeq(playlist_files, 1, FilesDone))
    /\ \A i \in 1..FilesDone :
          /\ Unparsable(playlist_files[i]) => Warned(i) /\ Holds(playlist_files[i]) = <<>>
          /\ OtherShape(playlist_files[i]) => ~Warned(i) /\ Holds(playlist_files[i]) = <<>>
    /\ Len(warnings) <= FilesDone

(* C6 as claimed: the other-shaped file too leaves a warning *)
C6_EveryBadFileWarns ==
    \A i \in 1..FilesDone :
        (Unparsable(playlist_files[i]) \/ OtherShape(playlist_files[i])) => Warned(i)

(* an unparsable file, then an other-shaped file, then a file whose playlist
   is loaded all the same *)
C6_Witness ==
    /\ pc = "flatten"
    /\ Len(playlist_files) = 3
    /\ Unparsable(playlist_files[1])
    /\ OtherShape(playlist_files[2])
    /\ Len(Holds(playlist_files[3])) = 1
    /\ playlist_list = Holds(playlist_files[3])
    /\ warnings = <<1>>

----------------------------------------------------------------------------
(* The loaded playlists, read off playlist_list *)
IsMapping(x) == x.type = "dict"

ItemsOf(playlist) ==
    IF "items" \notin DOMAIN playlist.json THEN <<>>
    ELSE IF playlist.json["items"].type = "dict" THEN <<playlist.json["items"]>>
    ELSE IF playlist.json["items"].type = "list" THEN playlist.json["items"].json
    ELSE <<>>

MappingItems(playlist) == SelectSeq(ItemsOf(playlist), IsMapping)

RECURSIVE AllMappingItems(_)
AllMappingItems(playlists) ==
    IF playlists = <<>> THEN <<>>
    ELSE LET p == playlists[1]
         IN [j \in 1..Len(MappingItems(p)) |-> [playlist |-> p, item |-> MappingItems(p)[j]]]
            \o AllMappingItems(Tail(playlists))

AllPlaylistsMappings == \A i \in 1..Len(playlist_list) : IsMapping(playlist_list[i])

TrackOf(item) == IF "track" \in DOMAIN item.json THEN item.json["track"] ELSE JDict(EmptyRec)

MetaKeys == {"name", "lastModifiedDate", "collaborators"}

(* the row C10 describes for a mapping item whose track is a mapping *)
UnionRow(playlist, item) ==
    [k \in MetaKeys \cup DOMAIN TrackOf(item).json |->
        IF k \in DOMAIN TrackOf(item).json THEN TrackOf(item).json[k]
        ELSE IF k \in DOMAIN playlist.json THEN playlist.json[k]
        ELSE JNull]

TypeErrorRaised == err.exc = "TypeError"

Flattened == Ran("all_tracks") \/ (pc = "aborted" /\ err.exc = "KeyError")

(* C1: the flattened table has one row for every mapping item of every
   loaded playlist; nothing stops the flattening of later items and
   playlists *)
C1_FlattenLossless ==
    AllPlaylistsMappings =>
        /\ ~TypeErrorRaised
        /\ Flattened => Len(all_tracks.rows) = Len(AllMappingItems(playlist_list))

(* C1 on the runs in which no `track` value breaks the flattening *)
C1_LosslessWhenFlattened ==
    Flattened => Len(all_tracks.rows) = Len(AllMappingItems(playlist_list))

(* C10: every mapping item gives the union row, the track winning; an item
   whose `track` is not a mapping does not abort the processing of its
   siblings *)
C10_UnionRowNoAbort ==
    AllPlaylistsMappings =>
        /\ ~TypeErrorRaised
        /\ Flattened =>
              /\ Len(playlist_records) = Len(AllMappingItems(playlist_list))
              /\ \A j \in 1..Len(playlist_records) :
                    LET m == AllMappingItems(playlist_list)[j]
                    IN IsMapping(TrackOf(m.item)) => playlist_records[j] = UnionRow(m.playlist, m.item)

(* C10 on the runs in which every `track` value is a mapping *)
C10_UnionRowWhenFlattened ==
    Flattened =>
        /\ Len(playlist_records) = Len(AllMappingItems(playlist_list))
        /\ \A j \in 1..Len(playlist_records) :
              LET m == AllMappingItems(playlist_list)[j]
              IN playlist_records[j] = UnionRow(m.playlist, m.item)

OptionalColumns ==
    {Artist, Track, "episode_show_name", "audiobook_title", "platform", "shuffle",
     "name", "artistName", "trackName"}

(* C7: no section aborts the run because an optional column is absent *)
C7_NoAbortOnAbsentColumn ==
    ~(pc = "aborted" /\ err.exc = "KeyError" /\ err.what \in OptionalColumns)
====
